---- MODULE Spec2Model ----
(***************************************************************************)
(* Model of uavcan/driver/slcan.py: the SLCAN driver facade (class SLCAN), *)
(* the IO process (_io_process with _init_adapter, _tx_thread and          *)
(* _stop_adapter) and the RX thread (_rx_thread), which communicate over   *)
(* the two bounded multiprocessing queues rx_queue and tx_queue.           *)
(***************************************************************************)
EXTENDS Integers, Sequences, FiniteSets, TLC

\* ---------------------------------------------------------------- bounds
\* Queue capacities; the program uses 100000 and 1000, the model scales them.
RX_QUEUE_SIZE == 2
TX_QUEUE_SIZE == 1
\* Frames the adapter delivers; one read holds any number of those left.
MaxFrames == 2
\* Calls the application makes on the facade.
MaxSend == 2
MaxRecv == 3
\* The count of reads of one acknowledgement wait is exact below this value;
\* from there on it alternates between the value and its predecessor.
MaxAckReads == 3
\* Fragments (frames or garbage) in the byte stream the decoder is run on.
MaxFragments == 2

\* ------------------------------------------------------------- constants
DEFAULT_BITRATE == 1000000
IPC_SIGNAL_INIT_OK == "init_ok"
IPC_COMMAND_STOP == "stop"
ACK == "ACK"
NACK == "NACK"
\* Outcomes of conn.read(1): nothing within ACK_TIMEOUT, or one byte.
NoByte == "none"
OtherByte == "other"
ReadOutcomes == {NoByte, ACK, NACK, OtherByte}

\* bitrate argument of the facade: 0 stands for None.
BitrateInputs == {0, 12345}

\* The table of _init_adapter.
speed_code ==
  [b \in {1000000, 8000000, 500000, 250000, 125000, 100000, 50000, 20000, 10000}
     |-> CASE b = 1000000 -> 8
           [] b = 8000000 -> 7
           [] b = 500000 -> 6
           [] b = 250000 -> 5
           [] b = 125000 -> 4
           [] b = 100000 -> 3
           [] b = 50000 -> 2
           [] b = 20000 -> 1
           [] b = 10000 -> 0]

\* An item of a queue, of the write log of the transport, or of a log.
Msg(k, i) == [kind |-> k, id |-> i]

VARIABLES
  bitrate,      \* the bitrate argument
  appPc,        \* position of the application thread inside the facade
  startRes,     \* outcome of SLCAN.__init__
  rx_queue,     \* IO process -> main process
  tx_queue,     \* main process -> IO process
  ioPc,         \* position of the IO process in _io_process
  initErr,      \* the exception _init_adapter raised
  stopErr,      \* _stop_adapter raised in the finally block
  should_exit,  \* the flag of _io_process
  conn,         \* the serial port: "unopened", "open", "closed"
  writes,       \* what was written to the port, in order
  ackReads,     \* reads of the current _wait_for_ack
  delivered,    \* the port has delivered a byte to _wait_for_ack
  lastAck,      \* <<command awaited, result of the last conn.read(1)>>
  txCmd,        \* the command _tx_thread took from tx_queue
  rxPc,         \* position of the RX thread
  rxPending,    \* frames of the current read not yet published
  rxExc,        \* the exception the RX thread is handling
  decoded,      \* frames decoded by the RX thread so far
  readFailed,   \* a conn.read of the RX thread has raised
  recvLog,      \* what the receive() calls returned or raised, in order
  startDropped, \* the messages __init__ took from rx_queue and discarded
  sendRes,      \* outcome of each send() call, by frame number
  txTaken,      \* commands _tx_thread took from tx_queue, in order
  stopsPut,     \* Stop Commands published: <<by __init__, by close()>>
  py2_compat,   \* _rx_thread runs under Python 2
  wireSrc,      \* the fragments the adapter sends, in order
  unread,       \* bytes of the adapter that conn.read has not returned yet
  buf,          \* buf of _rx_thread
  pos,          \* pos of _rx_thread
  decPc,        \* position of _rx_thread between its read and buf = buf[pos:]
  frames,       \* what _rx_thread has put on rx_queue, in order
  lastParse     \* outcome of the last parse at a marker

vars == <<bitrate, appPc, startRes, rx_queue, tx_queue, ioPc, initErr, stopErr,
          should_exit, conn, writes, ackReads, delivered, lastAck, txCmd, rxPc,
          rxPending, rxExc, decoded, readFailed, recvLog, startDropped, sendRes,
          txTaken, stopsPut, py2_compat, wireSrc, unread, buf, pos, decPc,
          frames, lastParse>>

\* The state of the decoder of _rx_thread.
codecVars == <<py2_compat, wireSrc, unread, buf, pos, decPc, frames, lastParse>>

\* The state of the session: facade, IO process, RX thread and queues.
sessionVars == <<bitrate, appPc, startRes, rx_queue, tx_queue, ioPc, initErr,
                 stopErr, should_exit, conn, writes, ackReads, delivered,
                 lastAck, txCmd, rxPc, rxPending, rxExc, decoded, readFailed,
                 recvLog, startDropped, sendRes, txTaken, stopsPut>>

appVars == <<appPc, startRes, recvLog, startDropped, sendRes, stopsPut>>
ioVars == <<ioPc, initErr, stopErr, should_exit, conn, writes, ackReads,
            delivered, lastAck, txCmd, txTaken>>
rxVars == <<rxPc, rxPending, rxExc, decoded, readFailed>>

\* ------------------------------------------------------------- helpers
\* Process.is_alive() of the IO process.
proc_is_alive == ioPc # "dead"

\* rxthd.is_alive()
rxthd_is_alive == rxPc \in {"loop", "publish", "except"}

\* try: q.put_nowait(x) except Exception: pass
put_nowait_swallow(q, cap, x) == IF Len(q) < cap THEN Append(q, x) ELSE q

\* Counting the reads of _wait_for_ack: every read changes the count.
Inc(n, cap) == IF n < cap THEN n + 1 ELSE cap - 1

\* ------------------------------------------------- bytes and Python
\* A byte is its value 0..255; ord gives the value of a character.
ord(c) ==
  CASE c = "\r" -> 13
    [] c = "-" -> 45
    [] c = "0" -> 48 [] c = "1" -> 49 [] c = "2" -> 50 [] c = "3" -> 51
    [] c = "4" -> 52 [] c = "5" -> 53 [] c = "6" -> 54 [] c = "7" -> 55
    [] c = "8" -> 56 [] c = "9" -> 57
    [] c = "A" -> 65 [] c = "B" -> 66 [] c = "C" -> 67 [] c = "D" -> 68
    [] c = "E" -> 69 [] c = "F" -> 70
    [] c = "T" -> 84
    [] c = "a" -> 97 [] c = "b" -> 98 [] c = "c" -> 99 [] c = "d" -> 100
    [] c = "e" -> 101 [] c = "f" -> 102
    [] c = "t" -> 116
    [] c = "x" -> 120

\* The bytes object of a sequence of characters.
bytes(cs) == [k \in DOMAIN cs |-> ord(cs[k])]

\* b[i] of Python for a bytes object b: negative indices count from the
\* end; IndexError outside -len(b)..len(b)-1.
PyIndexOK(b, i) == -Len(b) <= i /\ i < Len(b)
PyIndex(b, i) == IF i < 0 THEN b[i + Len(b) + 1] ELSE b[i + 1]

\* b[i:j] of Python: negative bounds count from the end, and both bounds
\* are clamped to 0..len(b).
PyBound(b, i) ==
  IF i < 0 THEN (IF i + Len(b) < 0 THEN 0 ELSE i + Len(b))
  ELSE IF i > Len(b) THEN Len(b) ELSE i
PySlice(b, i, j) == SubSeq(b, PyBound(b, i) + 1, PyBound(b, j))

\* b[i:] of Python.
PySliceFrom(b, i) == SubSeq(b, PyBound(b, i) + 1, Len(b))

\* The value of a hexadecimal digit, -1 for any other byte.
HexVal(b) ==
  IF b >= 48 /\ b <= 57 THEN b - 48
  ELSE IF b >= 65 /\ b <= 70 THEN b - 55
  ELSE IF b >= 97 /\ b <= 102 THEN b - 87
  ELSE -1

RECURSIVE HexNumber(_)
\* The number written by a sequence of hexadecimal digits.
HexNumber(ds) ==
  IF ds = <<>> THEN 0
  ELSE 16 * HexNumber(SubSeq(ds, 1, Len(ds) - 1)) + HexVal(ds[Len(ds)])

\* White space for int(): of a str (uni) it includes the separators
\* 0x1C..0x1F, of a bytes object it does not.
IsSpace(b, uni) == b \in {9, 10, 11, 12, 13, 32} \/ (uni /\ b \in 28..31)

\* int(s, 16) of Python: white space around the number is stripped, a sign
\* and the prefix 0x are accepted, and (from Python 3.6, us) single
\* underscores between digits. ok is FALSE where Python raises ValueError
\* (or UnicodeDecodeError, for a byte above 127 in a str).
int16(s, uni, us) ==
  LET nsp == {k \in DOMAIN s : ~IsSpace(s[k], uni)}
      lo == CHOOSE k \in nsp : \A m \in nsp : k <= m
      hi == CHOOSE k \in nsp : \A m \in nsp : m <= k
      signed == s[lo] \in {43, 45}
      a == IF signed THEN lo + 1 ELSE lo
      prefixed == a + 1 <= hi /\ s[a] = 48 /\ s[a + 1] \in {88, 120}
      c == IF prefixed
             THEN (IF a + 2 <= hi /\ s[a + 2] = 95 /\ us THEN a + 3 ELSE a + 2)
             ELSE a
      core == SubSeq(s, c, hi)
      digits == SelectSeq(core, LAMBDA b : b # 95)
      wellFormed ==
        /\ core # <<>>
        /\ \A k \in DOMAIN core :
             \/ HexVal(core[k]) >= 0
             \/ /\ us /\ core[k] = 95
                /\ k > 1 /\ k < Len(core)
                /\ core[k - 1] # 95
  IN IF nsp = {} \/ (\E k \in DOMAIN s : s[k] > 127 \/ s[k] = 0)
       THEN [ok |-> FALSE, val |-> 0]
     ELSE IF ~wellFormed THEN [ok |-> FALSE, val |-> 0]
     ELSE [ok |-> TRUE,
           val |-> IF signed /\ s[lo] = 45 THEN 0 - HexNumber(digits)
                   ELSE HexNumber(digits)]

\* binascii.a2b_hex(s): an even number of hexadecimal digits, else it raises.
a2b_hex(s) ==
  IF Len(s) % 2 = 0 /\ \A k \in DOMAIN s : HexVal(s[k]) >= 0
    THEN [ok |-> TRUE,
          val |-> [k \in 1..(Len(s) \div 2) |->
                     16 * HexVal(s[2 * k - 1]) + HexVal(s[2 * k])]]
    ELSE [ok |-> FALSE, val |-> <<>>]

\* The digit characters of the formats %X (upper) and of b2a_hex (lower).
HexChar(d, upper) ==
  IF d < 10 THEN 48 + d ELSE IF upper THEN 55 + d ELSE 87 + d

RECURSIVE Digits(_, _)
\* The digits of n >= 0 in the given base, most significant first.
Digits(n, base) ==
  IF n < base THEN <<n>> ELSE Append(Digits(n \div base, base), n % base)

\* '%0<width>X' % n for n >= 0: zero padded to width, never truncated.
FormatX(n, width) ==
  LET ds == Digits(n, 16)
      pad == IF Len(ds) < width THEN width - Len(ds) ELSE 0
  IN [k \in 1..pad |-> 48] \o [k \in DOMAIN ds |-> HexChar(ds[k], TRUE)]

\* '%d' % n for n >= 0.
FormatD(n) == LET ds == Digits(n, 10) IN [k \in DOMAIN ds |-> 48 + ds[k]]

\* binascii.b2a_hex(data): two lower case digits per byte.
b2a_hex(data) ==
  [k \in 1..(2 * Len(data)) |->
     LET b == data[(k + 1) \div 2]
     IN HexChar(IF k % 2 = 1 THEN b \div 16 ELSE b % 16, FALSE)]

\* CANFrame(can_id, data, extended) as _rx_thread and send() construct it;
\* ts_hardware is <<>> for None, else <<the counter of the adapter>>.
CANFrame(can_id, data, extended, ts_hardware) ==
  [kind |-> "frame", id |-> can_id, data |-> data, extended |-> extended,
   ts_hardware |-> ts_hardware]

\* The invariant of a CAN frame: at most eight payload bytes, and an
\* identifier that fits the width the extended flag implies.
FrameInvariant(f) ==
  /\ Len(f.data) <= 8
  /\ f.id >= 0
  /\ f.id < (IF f.extended THEN 536870912 ELSE 2048)

\* What the constructor of CANFrame does with arguments that break the
\* invariant is not fixed: it builds the frame or it raises.
CANFrameOutcomes(f) ==
  IF FrameInvariant(f) THEN {"built"} ELSE {"built", "raised"}

\* The bytes of the markers, of the terminator and of the digits that
\* _rx_thread tests for.
MarkerBytes == {ord("T"), ord("t")}
UpperHexBytes == {b \in 48..70 : b <= 57 \/ b >= 65}

\* An item of frames that is not a frame: the exception put by the handler.
DecodeError ==
  [kind |-> "exc", id |-> 0, data |-> <<>>, extended |-> FALSE,
   ts_hardware |-> <<>>]

\* Outcome of a parse: kind is "frame", "more" (the break of 'need more
\* data') or "error" (the except branch); pos is the value of pos after it,
\* at the position of the marker; peeked tells that the byte at the
\* terminator position was tested, peek is that byte.
ParseResult(kind, at, newpos, frame, peeked, peek, with_timestamp) ==
  [kind |-> kind, at |-> at, pos |-> newpos, frame |-> frame,
   peeked |-> peeked, peek |-> peek, with_timestamp |-> with_timestamp]

NoParse == ParseResult("none", 0, 0, DecodeError, FALSE, 0, FALSE)

\* _rx_thread, the try block at a marker: b is buf, p is pos (the position of
\* a marker), py2 is py2_compat.
parse(b, p, py2) ==
  LET id_len == IF PyIndex(b, p) = ord("T") THEN 8 ELSE 3
      available_length == Len(b) - p
      packet_id == int16(PySlice(b, p + 1, p + 1 + id_len), TRUE, ~py2)
      lenIdx == p + 1 + id_len
      lenByte == PyIndex(b, lenIdx)
      lenRaises == ~PyIndexOK(b, lenIdx) \/ (py2 /\ lenByte \notin 48..57)
      packet_len == lenByte - 48
      total0 == 2 + id_len + packet_len * 2 + 1
      peekIdx == p + total0 - 1
      peek == PyIndex(b, peekIdx)
      with_timestamp == peek \in UpperHexBytes
      total_length == IF with_timestamp THEN total0 + 3 ELSE total0
      packet_data == a2b_hex(PySlice(b, p + 2 + id_len,
                                     p + 2 + id_len + packet_len * 2))
      newpos == p + total_length
      ts == int16(PySlice(b, newpos - 4, newpos), FALSE, ~py2)
      Error(at) == ParseResult("error", p, at + 1, DecodeError, FALSE, 0, FALSE)
      More == ParseResult("more", p, p, DecodeError, FALSE, 0, FALSE)
  IN IF available_length < id_len + 2 THEN More
     ELSE IF ~packet_id.ok THEN Error(p)
     ELSE IF lenRaises THEN Error(p)
     ELSE IF packet_len > 8 THEN Error(p)
     ELSE IF available_length < total0 THEN More
     ELSE IF ~PyIndexOK(b, peekIdx) THEN Error(p)
     ELSE IF with_timestamp /\ available_length < total_length
       THEN ParseResult("more", p, p, DecodeError, TRUE, peek, TRUE)
     ELSE IF ~packet_data.ok
       THEN ParseResult("error", p, p + 1, DecodeError, TRUE, peek,
                        with_timestamp)
     ELSE IF with_timestamp /\ ~ts.ok
       THEN ParseResult("error", p, newpos + 1, DecodeError, TRUE, peek, TRUE)
     ELSE ParseResult("frame", p, newpos,
                      CANFrame(packet_id.val, packet_data.val, id_len = 8,
                               IF with_timestamp THEN <<ts.val>> ELSE <<>>),
                      TRUE, peek, with_timestamp)

\* Variant of _send_frame that formats the identifier with '%X', without
\* the zero padding.
send_frame_no_pad(frame) ==
  (IF frame.extended THEN <<ord("T")>> \o FormatX(frame.id, 1)
                     ELSE <<ord("t")>> \o FormatX(frame.id, 1))
    \o FormatD(Len(frame.data)) \o b2a_hex(frame.data) \o <<ord("\r")>>

\* _send_frame: the line written to the port for a frame.
_send_frame(frame) ==
  (IF frame.extended THEN <<ord("T")>> \o FormatX(frame.id, 8)
                     ELSE <<ord("t")>> \o FormatX(frame.id, 3))
    \o FormatD(Len(frame.data)) \o b2a_hex(frame.data) \o <<ord("\r")>>

SessionInit ==
  /\ bitrate \in BitrateInputs
  /\ appPc = "init_get"
  /\ startRes = "pending"
  /\ rx_queue = <<>>
  /\ tx_queue = <<>>
  /\ ioPc = "spawned"
  /\ initErr = "none"
  /\ stopErr = FALSE
  /\ should_exit = FALSE
  /\ conn = "unopened"
  /\ writes = <<>>
  /\ ackReads = 0
  /\ delivered = FALSE
  /\ lastAck = <<"none", NoByte>>
  /\ txCmd = Msg("none", 0)
  /\ rxPc = "idle"
  /\ rxPending = 0
  /\ rxExc = "none"
  /\ decoded = 0
  /\ readFailed = FALSE
  /\ recvLog = <<>>
  /\ startDropped = {}
  /\ sendRes = [i \in 1..MaxSend |-> "none"]
  /\ txTaken = <<>>
  /\ stopsPut = <<0, 0>>

\* The decoder at rest: the state of the codec in a session of Spec, whose
\* RX thread is modelled by the count of the frames it decodes.
CodecIdle ==
  /\ py2_compat = FALSE
  /\ wireSrc = <<>>
  /\ unread = <<>>
  /\ buf = <<>>
  /\ pos = 0
  /\ decPc = "read"
  /\ frames = <<>>
  /\ lastParse = NoParse

Init == SessionInit /\ CodecIdle

\* ------------------------------------------------------------ IO process
\* Variant of _wait_for_ack that does not test for NACK: the byte is
\* discarded like any other.
wait_for_ack_no_nack(b) ==
  CASE b = NoByte -> "AckTimeout"
    [] b = ACK -> "ok"
    [] OTHER -> "again"

\* Variant of _wait_for_ack that reads again after an empty read.
wait_for_ack_retry(b) ==
  CASE b = NACK -> "Nack"
    [] b = ACK -> "ok"
    [] OTHER -> "again"

\* One iteration of the loop of _wait_for_ack on the result b of conn.read(1):
\* the exception it raises, "ok" when it breaks, "again" when it loops.
_wait_for_ack(b) ==
  CASE b = NoByte -> "AckTimeout"
    [] b = NACK -> "Nack"
    [] b = ACK -> "ok"
    [] OTHER -> "again"

\* conn = serial.Serial(device, baudrate): outside the try block.
IoOpen ==
  /\ ioPc = "spawned"
  /\ \/ /\ conn' = "open"
        /\ ioPc' = "init_adapter"
     \/ /\ conn' = conn
        /\ ioPc' = "dead"
  /\ UNCHANGED <<initErr, stopErr, should_exit, writes, ackReads, delivered, lastAck,
                 txCmd, txTaken>>
  /\ UNCHANGED <<codecVars, bitrate, rx_queue, tx_queue>>
  /\ UNCHANGED appVars
  /\ UNCHANGED rxVars

\* Variant of _init_adapter that does not wait for the acknowledgement of
\* the set-bitrate command before it opens the channel.
IoSetBitrate_no_wait ==
  /\ ioPc = "init_adapter"
  /\ LET b == IF bitrate = 0 THEN DEFAULT_BITRATE ELSE bitrate
     IN IF b \notin DOMAIN speed_code
          THEN /\ initErr' = "KeyError"
               /\ ioPc' = "finally"
               /\ writes' = writes
          ELSE \/ /\ writes' = Append(writes, Msg("S", speed_code[b]))
                  /\ ioPc' = "open_channel"
                  /\ initErr' = initErr
               \/ /\ writes' = writes
                  /\ initErr' = "WriteError"
                  /\ ioPc' = "finally"
  /\ ackReads' = 0
  /\ UNCHANGED <<stopErr, should_exit, conn, delivered, lastAck, txCmd, txTaken>>
  /\ UNCHANGED <<codecVars, bitrate, rx_queue, tx_queue>>
  /\ UNCHANGED appVars
  /\ UNCHANGED rxVars

\* _init_adapter: the table lookup, then 'S<code>\r' is written.
IoSetBitrate ==
  /\ ioPc = "init_adapter"
  /\ LET b == IF bitrate = 0 THEN DEFAULT_BITRATE ELSE bitrate
     IN IF b \notin DOMAIN speed_code
          THEN /\ initErr' = "KeyError"
               /\ ioPc' = "finally"
               /\ writes' = writes
          ELSE \/ /\ writes' = Append(writes, Msg("S", speed_code[b]))
                  /\ ioPc' = "ack_S"
                  /\ initErr' = initErr
               \/ /\ writes' = writes
                  /\ initErr' = "WriteError"
                  /\ ioPc' = "finally"
  /\ ackReads' = 0
  /\ UNCHANGED <<stopErr, should_exit, conn, delivered, lastAck, txCmd, txTaken>>
  /\ UNCHANGED <<codecVars, bitrate, rx_queue, tx_queue>>
  /\ UNCHANGED appVars
  /\ UNCHANGED rxVars

\* One conn.read(1) of _wait_for_ack, after the command cmd was written.
IoWaitAck(cmd, next) ==
  /\ ioPc = "ack_" \o cmd
  /\ \E b \in ReadOutcomes :
       LET r == _wait_for_ack(b)
       IN /\ ackReads' = IF r = "ok" THEN 0 ELSE Inc(ackReads, MaxAckReads)
          /\ delivered' = (delivered \/ b # NoByte)
          /\ lastAck' = <<cmd, b>>
          /\ IF r = "again" THEN /\ ioPc' = ioPc
                                 /\ initErr' = initErr
             ELSE IF r = "ok" THEN /\ ioPc' = next
                                   /\ initErr' = initErr
             ELSE /\ ioPc' = "finally"
                  /\ initErr' = r
  /\ UNCHANGED <<stopErr, should_exit, conn, writes, txCmd, txTaken>>
  /\ UNCHANGED <<codecVars, bitrate, rx_queue, tx_queue>>
  /\ UNCHANGED appVars
  /\ UNCHANGED rxVars

IoWaitAckS == IoWaitAck("S", "open_channel")

\* conn.write(b'O\r')
IoOpenChannel ==
  /\ ioPc = "open_channel"
  /\ \/ /\ writes' = Append(writes, Msg("O", 0))
        /\ ioPc' = "ack_O"
        /\ initErr' = initErr
     \/ /\ writes' = writes
        /\ initErr' = "WriteError"
        /\ ioPc' = "finally"
  /\ ackReads' = 0
  /\ UNCHANGED <<stopErr, should_exit, conn, delivered, lastAck, txCmd, txTaken>>
  /\ UNCHANGED <<codecVars, bitrate, rx_queue, tx_queue>>
  /\ UNCHANGED appVars
  /\ UNCHANGED rxVars

IoWaitAckO == IoWaitAck("O", "start_rx")

\* rxthd.start()
IoStartRx ==
  /\ ioPc = "start_rx"
  /\ rxPc' = "loop"
  /\ ioPc' = "put_init_ok"
  /\ UNCHANGED <<initErr, stopErr, should_exit, conn, writes, ackReads,
                 delivered, lastAck, txCmd, txTaken>>
  /\ UNCHANGED <<rxPending, rxExc, decoded, readFailed>>
  /\ UNCHANGED <<codecVars, bitrate, rx_queue, tx_queue>>
  /\ UNCHANGED appVars

\* rx_queue.put(IPC_SIGNAL_INIT_OK): blocks while the queue is full.
IoSignalInitOk ==
  /\ ioPc = "put_init_ok"
  /\ Len(rx_queue) < RX_QUEUE_SIZE
  /\ rx_queue' = Append(rx_queue, Msg(IPC_SIGNAL_INIT_OK, 0))
  /\ ioPc' = "tx_loop"
  /\ UNCHANGED <<initErr, stopErr, should_exit, conn, writes, ackReads,
                 delivered, lastAck, txCmd, txTaken>>
  /\ UNCHANGED <<codecVars, bitrate, tx_queue>>
  /\ UNCHANGED appVars
  /\ UNCHANGED rxVars

\* _tx_thread: while not termination_condition()
TxLoop ==
  /\ ioPc = "tx_loop"
  /\ ioPc' = IF should_exit \/ ~rxthd_is_alive THEN "finally" ELSE "tx_get"
  /\ UNCHANGED <<initErr, stopErr, should_exit, conn, writes, ackReads,
                 delivered, lastAck, txCmd, txTaken>>
  /\ UNCHANGED <<codecVars, bitrate, rx_queue, tx_queue>>
  /\ UNCHANGED appVars
  /\ UNCHANGED rxVars

\* command = tx_queue.get(True, queue_block_timeout)
TxGet ==
  /\ ioPc = "tx_get"
  /\ IF tx_queue = <<>>
       THEN /\ ioPc' = "tx_loop"
            /\ UNCHANGED <<tx_queue, txCmd, txTaken>>
       ELSE /\ tx_queue' = Tail(tx_queue)
            /\ txCmd' = Head(tx_queue)
            /\ txTaken' = Append(txTaken, Head(tx_queue))
            /\ ioPc' = IF Head(tx_queue).kind = IPC_COMMAND_STOP
                         THEN "finally" ELSE "tx_send"
  /\ UNCHANGED <<initErr, stopErr, should_exit, conn, writes, ackReads, delivered, lastAck>>
  /\ UNCHANGED <<codecVars, bitrate, rx_queue>>
  /\ UNCHANGED appVars
  /\ UNCHANGED rxVars

\* _send_frame(conn, command); an exception is forwarded to rx_queue.
TxSendFrame ==
  /\ ioPc = "tx_send"
  /\ \/ /\ writes' = Append(writes, txCmd)
        /\ rx_queue' = rx_queue
     \/ /\ writes' = writes
        /\ rx_queue' = put_nowait_swallow(rx_queue, RX_QUEUE_SIZE,
                                          Msg("exc_write", txCmd.id))
  /\ ioPc' = "tx_loop"
  /\ UNCHANGED <<initErr, stopErr, should_exit, conn, ackReads, delivered, lastAck,
                 txCmd, txTaken>>
  /\ UNCHANGED <<codecVars, bitrate, tx_queue>>
  /\ UNCHANGED appVars
  /\ UNCHANGED rxVars

\* finally: should_exit = True
IoFinally ==
  /\ ioPc = "finally"
  /\ should_exit' = TRUE
  /\ ioPc' = "join"
  /\ UNCHANGED <<initErr, stopErr, conn, writes, ackReads, delivered, lastAck, txCmd,
                 txTaken>>
  /\ UNCHANGED <<codecVars, bitrate, rx_queue, tx_queue>>
  /\ UNCHANGED appVars
  /\ UNCHANGED rxVars

\* if rxthd.is_alive(): rxthd.join()
IoJoinRx ==
  /\ ioPc = "join"
  /\ ~rxthd_is_alive
  /\ ioPc' = "stop_adapter"
  /\ UNCHANGED <<initErr, stopErr, should_exit, conn, writes, ackReads,
                 delivered, lastAck, txCmd, txTaken>>
  /\ UNCHANGED <<codecVars, bitrate, rx_queue, tx_queue>>
  /\ UNCHANGED appVars
  /\ UNCHANGED rxVars

\* _stop_adapter(conn): an exception of the write leaves the finally block.
IoStopAdapter ==
  /\ ioPc = "stop_adapter"
  /\ \/ /\ writes' = Append(writes, Msg("C", 0))
        /\ ioPc' = "close"
        /\ stopErr' = stopErr
     \/ /\ writes' = writes
        /\ stopErr' = TRUE
        /\ ioPc' = "dead"
  /\ UNCHANGED <<initErr, should_exit, conn, ackReads, delivered, lastAck, txCmd, txTaken>>
  /\ UNCHANGED <<codecVars, bitrate, rx_queue, tx_queue>>
  /\ UNCHANGED appVars
  /\ UNCHANGED rxVars

\* conn.close(), after which the process ends.
IoClose ==
  /\ ioPc = "close"
  /\ conn' = "closed"
  /\ ioPc' = "dead"
  /\ UNCHANGED <<initErr, stopErr, should_exit, writes, ackReads, delivered, lastAck,
                 txCmd, txTaken>>
  /\ UNCHANGED <<codecVars, bitrate, rx_queue, tx_queue>>
  /\ UNCHANGED appVars
  /\ UNCHANGED rxVars

IoProcess ==
  \/ IoOpen \/ IoSetBitrate \/ IoWaitAckS \/ IoOpenChannel \/ IoWaitAckO
  \/ IoStartRx \/ IoSignalInitOk \/ TxLoop \/ TxGet \/ TxSendFrame
  \/ IoFinally \/ IoJoinRx \/ IoStopAdapter \/ IoClose

\* -------------------------------------------------------------- RX thread
\* _rx_thread: the loop condition, then select and conn.read: nothing, a
\* chunk holding n whole frames, or an exception (the port fails one read of
\* a session at most).
RxRead ==
  /\ rxPc = "loop"
  /\ IF should_exit
       THEN /\ rxPc' = "exited"
            /\ UNCHANGED <<rxPending, rxExc, readFailed>>
       ELSE \/ UNCHANGED <<rxPc, rxPending, rxExc, readFailed>>
            \/ \E n \in 1..(MaxFrames - decoded) :
                 /\ rxPending' = n
                 /\ rxPc' = "publish"
                 /\ UNCHANGED <<rxExc, readFailed>>
            \/ /\ ~readFailed
               /\ readFailed' = TRUE
               /\ rxExc' = "exc_read"
               /\ rxPc' = "except"
               /\ UNCHANGED rxPending
  /\ UNCHANGED decoded
  /\ UNCHANGED <<codecVars, bitrate, rx_queue, tx_queue>>
  /\ UNCHANGED appVars
  /\ UNCHANGED ioVars

\* rx_queue.put_nowait(frame) for the next frame of the buffer; queue.Full
\* is raised inside the outer try block.
RxPublish ==
  /\ rxPc = "publish"
  /\ decoded' = decoded + 1
  /\ IF Len(rx_queue) < RX_QUEUE_SIZE
       THEN /\ rx_queue' = Append(rx_queue, Msg("frame", decoded + 1))
            /\ rxPending' = rxPending - 1
            /\ rxPc' = IF rxPending = 1 THEN "loop" ELSE "publish"
            /\ rxExc' = rxExc
       ELSE /\ rx_queue' = rx_queue
            /\ rxPending' = 0
            /\ rxExc' = "exc_full"
            /\ rxPc' = "except"
  /\ UNCHANGED readFailed
  /\ UNCHANGED <<codecVars, bitrate, tx_queue>>
  /\ UNCHANGED appVars
  /\ UNCHANGED ioVars

\* Variant of the handler that leaves the loop after forwarding ex.
RxExcept_break ==
  /\ rxPc = "except"
  /\ rx_queue' = put_nowait_swallow(rx_queue, RX_QUEUE_SIZE, Msg(rxExc, 0))
  /\ rxExc' = "none"
  /\ rxPc' = "exited"
  /\ UNCHANGED <<rxPending, decoded, readFailed>>
  /\ UNCHANGED <<codecVars, bitrate, tx_queue>>
  /\ UNCHANGED appVars
  /\ UNCHANGED ioVars

\* except Exception as ex: the buffer is discarded, ex is forwarded if the
\* queue has room, and the loop goes on.
RxExcept ==
  /\ rxPc = "except"
  /\ rx_queue' = put_nowait_swallow(rx_queue, RX_QUEUE_SIZE, Msg(rxExc, 0))
  /\ rxExc' = "none"
  /\ rxPc' = "loop"
  /\ UNCHANGED <<rxPending, decoded, readFailed>>
  /\ UNCHANGED <<codecVars, bitrate, tx_queue>>
  /\ UNCHANGED appVars
  /\ UNCHANGED ioVars

\* rx_thread_wrapper: an exception leaves _rx_thread; it is forwarded with
\* put_nowait and the thread ends.
RxCrash ==
  /\ rxPc \in {"loop", "publish", "except"}
  /\ rx_queue' = put_nowait_swallow(rx_queue, RX_QUEUE_SIZE, Msg("exc_crash", 0))
  /\ rxPc' = "crashed"
  /\ rxPending' = 0
  /\ rxExc' = "none"
  /\ UNCHANGED <<decoded, readFailed>>
  /\ UNCHANGED <<codecVars, bitrate, tx_queue>>
  /\ UNCHANGED appVars
  /\ UNCHANGED ioVars

RxThread == RxRead \/ RxPublish \/ RxExcept

\* ----------------------------------------------------------------- facade
\* SLCAN.__init__: sig = self._rx_queue.get(timeout=IO_PROCESS_INIT_TIMEOUT),
\* then the deadline test; past the deadline the Stop Command is published
\* with put_nowait and DriverError is raised.
StartGet ==
  /\ appPc = "init_get"
  /\ \E late \in BOOLEAN :
       LET empty == rx_queue = <<>>
           ready == ~empty /\ Head(rx_queue).kind = IPC_SIGNAL_INIT_OK
           timeout == ~ready /\ (empty \/ late)
       IN /\ rx_queue' = IF empty THEN rx_queue ELSE Tail(rx_queue)
          /\ startDropped' = IF empty \/ ready THEN startDropped
                             ELSE startDropped \cup {Head(rx_queue)}
          /\ appPc' = IF ready THEN "init_check"
                      ELSE IF timeout THEN "idle" ELSE "init_get"
          /\ startRes' = IF timeout THEN "InitTimeout" ELSE startRes
          /\ tx_queue' = IF timeout /\ Len(tx_queue) < TX_QUEUE_SIZE
                           THEN Append(tx_queue, Msg(IPC_COMMAND_STOP, 0))
                           ELSE tx_queue
          /\ stopsPut' = IF timeout /\ Len(tx_queue) < TX_QUEUE_SIZE
                           THEN <<stopsPut[1] + 1, stopsPut[2]>> ELSE stopsPut
  /\ UNCHANGED <<recvLog, sendRes>>
  /\ UNCHANGED <<codecVars, bitrate>>
  /\ UNCHANGED ioVars
  /\ UNCHANGED rxVars

\* SLCAN.__init__: self._check_alive() after the readiness signal.
StartCheckAlive ==
  /\ appPc = "init_check"
  /\ startRes' = IF proc_is_alive THEN "ok" ELSE "SessionDead"
  /\ appPc' = "idle"
  /\ UNCHANGED <<recvLog, startDropped, sendRes, stopsPut>>
  /\ UNCHANGED <<codecVars, bitrate, rx_queue, tx_queue>>
  /\ UNCHANGED ioVars
  /\ UNCHANGED rxVars

\* SLCAN.receive: self._check_alive()
ReceiveCheck ==
  /\ appPc = "idle"
  /\ startRes = "ok"
  /\ Len(recvLog) < MaxRecv
  /\ IF proc_is_alive
       THEN /\ appPc' = "recv_get"
            /\ recvLog' = recvLog
       ELSE /\ appPc' = appPc
            /\ recvLog' = Append(recvLog, Msg("SessionDead", 0))
  /\ UNCHANGED <<startRes, startDropped, sendRes, stopsPut>>
  /\ UNCHANGED <<codecVars, bitrate, rx_queue, tx_queue>>
  /\ UNCHANGED ioVars
  /\ UNCHANGED rxVars

\* Variant of receive that takes the newest item of the queue.
ReceiveGet_newest ==
  /\ appPc = "recv_get"
  /\ IF rx_queue = <<>>
       THEN UNCHANGED <<recvLog, rx_queue>>
       ELSE /\ recvLog' = Append(recvLog, rx_queue[Len(rx_queue)])
            /\ rx_queue' = SubSeq(rx_queue, 1, Len(rx_queue) - 1)
  /\ appPc' = "idle"
  /\ UNCHANGED <<startRes, startDropped, sendRes, stopsPut>>
  /\ UNCHANGED <<codecVars, bitrate, tx_queue>>
  /\ UNCHANGED ioVars
  /\ UNCHANGED rxVars

\* SLCAN.receive: obj = self._rx_queue.get(timeout=timeout) and its dispatch:
\* None on queue.Empty (not logged), the frame, or the exception raised again.
ReceiveGet ==
  /\ appPc = "recv_get"
  /\ IF rx_queue = <<>>
       THEN UNCHANGED <<recvLog, rx_queue>>
       ELSE /\ recvLog' = Append(recvLog, Head(rx_queue))
            /\ rx_queue' = Tail(rx_queue)
  /\ appPc' = "idle"
  /\ UNCHANGED <<startRes, startDropped, sendRes, stopsPut>>
  /\ UNCHANGED <<codecVars, bitrate, tx_queue>>
  /\ UNCHANGED ioVars
  /\ UNCHANGED rxVars

\* The frame number of the next send() call.
NextSend == Cardinality({i \in 1..MaxSend : sendRes[i] # "none"}) + 1

\* SLCAN.send: self._check_alive() and the construction of the frame.
SendCheck ==
  /\ appPc = "idle"
  /\ startRes = "ok"
  /\ NextSend <= MaxSend
  /\ IF proc_is_alive
       THEN /\ appPc' = "send_put"
            /\ sendRes' = [sendRes EXCEPT ![NextSend] = "blocked"]
       ELSE /\ appPc' = appPc
            /\ sendRes' = [sendRes EXCEPT ![NextSend] = "SessionDead"]
  /\ UNCHANGED <<startRes, recvLog, startDropped, stopsPut>>
  /\ UNCHANGED <<codecVars, bitrate, rx_queue, tx_queue>>
  /\ UNCHANGED ioVars
  /\ UNCHANGED rxVars

\* Variant of send that uses put_nowait and swallows queue.Full.
SendPut_nowait ==
  /\ appPc = "send_put"
  /\ \E i \in 1..MaxSend :
       /\ sendRes[i] = "blocked"
       /\ tx_queue' = put_nowait_swallow(tx_queue, TX_QUEUE_SIZE, Msg("frame", i))
       /\ sendRes' = [sendRes EXCEPT ![i] = "ok"]
  /\ appPc' = "idle"
  /\ UNCHANGED <<startRes, recvLog, startDropped, stopsPut>>
  /\ UNCHANGED <<codecVars, bitrate, rx_queue>>
  /\ UNCHANGED ioVars
  /\ UNCHANGED rxVars

\* SLCAN.send: self._tx_queue.put(frame) blocks while the queue is full.
SendPut ==
  /\ appPc = "send_put"
  /\ Len(tx_queue) < TX_QUEUE_SIZE
  /\ \E i \in 1..MaxSend :
       /\ sendRes[i] = "blocked"
       /\ tx_queue' = Append(tx_queue, Msg("frame", i))
       /\ sendRes' = [sendRes EXCEPT ![i] = "ok"]
  /\ appPc' = "idle"
  /\ UNCHANGED <<startRes, recvLog, startDropped, stopsPut>>
  /\ UNCHANGED <<codecVars, bitrate, rx_queue>>
  /\ UNCHANGED ioVars
  /\ UNCHANGED rxVars

\* SLCAN.close (also run by __del__): if self._proc.is_alive()
CloseCheck ==
  /\ appPc = "idle"
  /\ startRes # "pending"
  /\ appPc' = IF proc_is_alive THEN "close_put" ELSE appPc
  /\ UNCHANGED <<startRes, recvLog, startDropped, sendRes, stopsPut>>
  /\ UNCHANGED <<codecVars, bitrate, rx_queue, tx_queue>>
  /\ UNCHANGED ioVars
  /\ UNCHANGED rxVars

\* Variant of close that empties tx_queue to make room for the Stop Command.
ClosePut_clear ==
  /\ appPc = "close_put"
  /\ tx_queue' = <<Msg(IPC_COMMAND_STOP, 0)>>
  /\ stopsPut' = <<stopsPut[1], stopsPut[2] + 1>>
  /\ appPc' = "close_join"
  /\ UNCHANGED <<startRes, recvLog, startDropped, sendRes>>
  /\ UNCHANGED <<codecVars, bitrate, rx_queue>>
  /\ UNCHANGED ioVars
  /\ UNCHANGED rxVars

\* SLCAN.close: self._tx_queue.put(IPC_COMMAND_STOP) blocks while full.
ClosePut ==
  /\ appPc = "close_put"
  /\ Len(tx_queue) < TX_QUEUE_SIZE
  /\ tx_queue' = Append(tx_queue, Msg(IPC_COMMAND_STOP, 0))
  /\ stopsPut' = <<stopsPut[1], stopsPut[2] + 1>>
  /\ appPc' = "close_join"
  /\ UNCHANGED <<startRes, recvLog, startDropped, sendRes>>
  /\ UNCHANGED <<codecVars, bitrate, rx_queue>>
  /\ UNCHANGED ioVars
  /\ UNCHANGED rxVars

\* SLCAN.close: self._proc.join()
CloseJoin ==
  /\ appPc = "close_join"
  /\ ~proc_is_alive
  /\ appPc' = "idle"
  /\ UNCHANGED <<startRes, recvLog, startDropped, sendRes, stopsPut>>
  /\ UNCHANGED <<codecVars, bitrate, rx_queue, tx_queue>>
  /\ UNCHANGED ioVars
  /\ UNCHANGED rxVars

\* The steps of the facade that wait on a queue or on the process.
FacadeWaits ==
  \/ StartGet \/ StartCheckAlive \/ ReceiveGet \/ SendPut \/ ClosePut
  \/ CloseJoin

Next ==
  \/ IoOpen \/ IoSetBitrate \/ IoWaitAckS \/ IoOpenChannel \/ IoWaitAckO
  \/ IoStartRx \/ IoSignalInitOk \/ TxLoop \/ TxGet \/ TxSendFrame
  \/ IoFinally \/ IoJoinRx \/ IoStopAdapter \/ IoClose
  \/ RxRead \/ RxPublish \/ RxExcept \/ RxCrash
  \/ StartGet \/ StartCheckAlive \/ ReceiveCheck \/ ReceiveGet
  \/ SendCheck \/ SendPut \/ CloseCheck \/ ClosePut \/ CloseJoin

Spec == Init /\ [][Next]_vars

\* The IO process, the RX thread and the blocked calls of the main process
\* are scheduled by the operating system: each keeps taking steps.
FairSpec ==
  Spec /\ WF_vars(IoProcess) /\ WF_vars(RxThread) /\ WF_vars(FacadeWaits)

TypeOK ==
  /\ Len(rx_queue) <= RX_QUEUE_SIZE
  /\ Len(tx_queue) <= TX_QUEUE_SIZE
  /\ conn \in {"unopened", "open", "closed"}
  /\ decoded \in 0..MaxFrames

\* ------------------------------------------------------ decoder of _rx_thread
\* The frames the encoder is run on: standard and extended identifiers at
\* both ends of their ranges, payloads of 0, 1, 2 and 8 bytes.
FrameInputs ==
  {CANFrame(i, d, FALSE, <<>>) :
     i \in {0, 291, 2047},
     d \in {<<>>, <<0>>, <<171, 205>>, <<1, 2, 3, 4, 5, 6, 7, 255>>}}
  \cup
  {CANFrame(i, d, TRUE, <<>>) :
     i \in {0, 2048, 536870911},
     d \in {<<>>, <<0>>, <<171, 205>>, <<1, 2, 3, 4, 5, 6, 7, 255>>}}

\* A fragment of the byte stream: its bytes, the frame it encodes (src, at
\* most one), whether it follows the wire grammar (valid), and the hardware
\* timestamp the adapter appended (stamp, four hex digits or none).
Encoded(F) ==
  [bytes |-> _send_frame(F), src |-> <<F>>, valid |-> TRUE, stamp |-> <<>>]
Stamped(F, ts4) ==
  LET line == _send_frame(F)
  IN [bytes |-> SubSeq(line, 1, Len(line) - 1) \o ts4 \o <<ord("\r")>>,
      src |-> <<F>>, valid |-> TRUE, stamp |-> ts4]
Garbage(bs) == [bytes |-> bs, src |-> <<>>, valid |-> FALSE, stamp |-> <<>>]

\* Eighteen hex digits: nine payload bytes.
NineBytesHex == [k \in 1..18 |-> IF k % 2 = 1 THEN ord("0") ELSE ord("1")]

\* The fragments that sequences are built of. Encoder output: a standard
\* frame without payload and an extended frame with one byte; the standard
\* frame with a timestamp of the adapter, in mixed case with a leading digit
\* and in lower case. Damaged frames: the terminator replaced by a digit; the
\* length digit replaced by '-'; a length digit of 9; a bad identifier digit;
\* bad payload digits; a stray byte.
Fragments ==
  { Encoded(CANFrame(291, <<>>, FALSE, <<>>)),
    Encoded(CANFrame(536870911, <<171>>, TRUE, <<>>)),
    Stamped(CANFrame(291, <<>>, FALSE, <<>>), bytes(<<"1", "a", "2", "B">>)),
    Stamped(CANFrame(291, <<>>, FALSE, <<>>), bytes(<<"a", "b", "c", "d">>)),
    Garbage(bytes(<<"t", "1", "2", "3", "0", "0">>)),
    Garbage(bytes(<<"t", "1", "2", "3", "-">>)),
    Garbage(bytes(<<"t", "1", "2", "3", "9", "\r">>)),
    Garbage(bytes(<<"t", "1", "2", "x", "0", "\r">>)),
    Garbage(bytes(<<"t", "1", "2", "3", "1", "x", "x", "\r">>)),
    Garbage(bytes(<<"x">>)) }

\* A damaged frame that is sent on its own: nine payload bytes behind a
\* length digit replaced by '-'.
LongFragments ==
  { Garbage(bytes(<<"t", "1", "2", "3", "-">>) \o NineBytesHex
              \o bytes(<<"\r">>)) }

\* The byte streams the decoder is run on: the encoding of each frame of
\* FrameInputs, each long fragment, and every sequence of at most
\* MaxFragments fragments.
WireInputs ==
  {<<Encoded(F)>> : F \in FrameInputs}
  \cup {<<f>> : f \in LongFragments}
  \cup UNION {[1..n -> Fragments] : n \in 0..MaxFragments}

RECURSIVE Wire(_)
\* The bytes of a sequence of fragments.
Wire(fs) == IF fs = <<>> THEN <<>> ELSE fs[1].bytes \o Wire(Tail(fs))

CodecInit ==
  /\ SessionInit
  /\ bitrate = 0
  /\ py2_compat \in BOOLEAN
  /\ wireSrc \in WireInputs
  /\ unread = Wire(wireSrc)
  /\ buf = <<>>
  /\ pos = 0
  /\ decPc = "read"
  /\ frames = <<>>
  /\ lastParse = NoParse

\* buf += conn.read(read_buffer_size): the read returns any number of the
\* bytes the adapter has sent, none included; then pos = 0.
DecodeRead ==
  /\ decPc = "read"
  /\ \E k \in 0..Len(unread) :
       /\ buf' = buf \o SubSeq(unread, 1, k)
       /\ unread' = SubSeq(unread, k + 1, Len(unread))
  /\ pos' = 0
  /\ decPc' = "scan"
  /\ UNCHANGED <<py2_compat, wireSrc, frames, lastParse>>
  /\ UNCHANGED sessionVars

\* while pos < buf_len and buf[pos] not in b'Tt': pos += 1, then the break
\* when no marker is left; buf[pos] raises IndexError below -len(buf).
DecodeScan ==
  /\ decPc = "scan"
  /\ LET markers == {q \in pos..(Len(buf) - 1) : PyIndex(buf, q) \in MarkerBytes}
     IN IF pos < Len(buf) /\ ~PyIndexOK(buf, pos)
          THEN /\ decPc' = "except"
               /\ pos' = pos
        ELSE IF markers = {}
          THEN /\ decPc' = "trim"
               /\ pos' = IF pos < Len(buf) THEN Len(buf) ELSE pos
        ELSE /\ decPc' = "parse"
             /\ pos' = CHOOSE q \in markers : \A m \in markers : q <= m
  /\ UNCHANGED <<py2_compat, wireSrc, unread, buf, frames, lastParse>>
  /\ UNCHANGED sessionVars

\* The try block at the marker and its else branch: the frame is built and
\* put on rx_queue with put_nowait; an exception of the constructor and the
\* queue.Full of put_nowait reach the outer handler.
DecodeParse ==
  /\ decPc = "parse"
  /\ LET r == parse(buf, pos, py2_compat)
     IN /\ lastParse' = r
        /\ pos' = r.pos
        /\ IF r.kind = "more" THEN /\ decPc' = "trim"
                                   /\ frames' = frames
           ELSE IF r.kind = "error" THEN /\ decPc' = "scan"
                                         /\ frames' = frames
           ELSE \E built \in CANFrameOutcomes(r.frame) :
                  IF built = "built" /\ Len(frames) < RX_QUEUE_SIZE
                    THEN /\ frames' = Append(frames, r.frame)
                         /\ decPc' = "scan"
                  ELSE /\ frames' = frames
                       /\ decPc' = "except"
  /\ UNCHANGED <<py2_compat, wireSrc, unread, buf>>
  /\ UNCHANGED sessionVars

\* Variant of the end of a pass that discards the whole buffer.
DecodeTrim_discard ==
  /\ decPc = "trim"
  /\ buf' = <<>>
  /\ decPc' = "read"
  /\ UNCHANGED <<py2_compat, wireSrc, unread, pos, frames, lastParse>>
  /\ UNCHANGED sessionVars

\* buf = buf[pos:]
DecodeTrim ==
  /\ decPc = "trim"
  /\ buf' = PySliceFrom(buf, pos)
  /\ decPc' = "read"
  /\ UNCHANGED <<py2_compat, wireSrc, unread, pos, frames, lastParse>>
  /\ UNCHANGED sessionVars

\* except Exception as ex: buf = bytes(), ex is put on rx_queue if it has
\* room, and the loop goes on.
DecodeExcept ==
  /\ decPc = "except"
  /\ buf' = <<>>
  /\ frames' = put_nowait_swallow(frames, RX_QUEUE_SIZE, DecodeError)
  /\ decPc' = "read"
  /\ UNCHANGED <<py2_compat, wireSrc, unread, pos, lastParse>>
  /\ UNCHANGED sessionVars

CodecNext ==
  \/ DecodeRead \/ DecodeScan \/ DecodeParse \/ DecodeTrim \/ DecodeExcept

\* The decoder of _rx_thread run on the byte streams of WireInputs, read in
\* every possible way.
CodecSpec == CodecInit /\ [][CodecNext]_vars

\* ------------------------------------------------------------ properties
Kinds(q) == {q[k].kind : k \in DOMAIN q}
TxLoopPcs == {"tx_loop", "tx_get", "tx_send"}

\* C1 (as stated): once a receive() call has raised the error E of a failed
\* read of the RX thread, every later receive() call raises SessionDead.
C1_Original ==
  \A i, j \in DOMAIN recvLog :
    (i < j /\ recvLog[i].kind = "exc_read") => recvLog[j].kind = "SessionDead"

\* C1 (amended): a failed read does not end the RX thread or the session. The
\* thread leaves its loop only when should_exit is set; as long as no Stop
\* Command was published and no exception has left _rx_thread, after a failed
\* read the IO process is still running with the RX thread alive, and no
\* receive() call has raised SessionDead; receive() raises E only when a read
\* has failed.
C1_ReadErrorKeepsSession ==
  /\ rxPc = "exited" => should_exit
  /\ (readFailed /\ rxPc # "crashed" /\ stopsPut = <<0, 0>>) =>
       /\ ioPc \in TxLoopPcs \cup {"put_init_ok"}
       /\ rxthd_is_alive
       /\ "SessionDead" \notin Kinds(recvLog)
  /\ "exc_read" \in Kinds(recvLog) \cup Kinds(rx_queue) => readFailed

\* receive() raised E and a later receive() call returned a frame.
C1_Witness ==
  \E i, j \in DOMAIN recvLog :
    /\ i < j
    /\ recvLog[i].kind = "exc_read"
    /\ recvLog[j].kind = "frame"

\* C2 (as stated): whenever the IO process has ended after the port was
\* opened, the RX thread was told to terminate and is not alive, 'C\r' is the
\* last write, and the port is closed.
C2_Original ==
  (ioPc = "dead" /\ conn # "unopened") =>
    /\ should_exit
    /\ ~rxthd_is_alive
    /\ writes # <<>> /\ writes[Len(writes)].kind = "C"
    /\ conn = "closed"

\* C3 (as stated): when _init_adapter failed with a handshake error, __init__
\* ends with that error.
C3_Original ==
  (initErr \in {"AckTimeout", "Nack", "KeyError"} /\ startRes # "pending") =>
    startRes = initErr

\* C4: the frames returned by receive() come in the order in which the RX
\* thread decoded them (frame numbers are decode order), whatever else is on
\* the queue between them.
C4_FramesInDecodeOrder ==
  \A i, j \in DOMAIN recvLog :
    (i < j /\ recvLog[i].kind = "frame" /\ recvLog[j].kind = "frame") =>
      recvLog[i].id < recvLog[j].id

\* Two frames were returned with a write error of the TX loop between them.
C4_Witness ==
  /\ Len(recvLog) = 3
  /\ recvLog[1].kind = "frame"
  /\ recvLog[2].kind = "exc_write"
  /\ recvLog[3].kind = "frame"

\* C5 (as stated): once the RX thread has died while _tx_thread runs and no
\* Stop Command was published, the IO process eventually ends with the port
\* closed.
C5_Original ==
  (rxPc = "crashed" /\ ioPc \in TxLoopPcs /\ stopsPut = <<0, 0>>)
    ~> (ioPc = "dead" /\ conn = "closed")

\* C6 (as stated): a close() call on a started facade that found the IO
\* process alive eventually returns, with the IO process ended.
C6_Original ==
  (appPc = "close_put" /\ startRes = "ok") ~> (appPc = "idle" /\ ioPc = "dead")

\* C7: send() leaves its put only when the queue had room and with its frame
\* appended; the queue never exceeds its capacity; the frame of every send()
\* that returned is on the queue or was taken by _tx_thread, also after the
\* IO process has ended.
C7_Backpressure ==
  /\ [](/\ Len(tx_queue) <= TX_QUEUE_SIZE
        /\ \A i \in 1..MaxSend :
             sendRes[i] = "ok" =>
               \/ \E k \in DOMAIN tx_queue : tx_queue[k] = Msg("frame", i)
               \/ \E k \in DOMAIN txTaken : txTaken[k] = Msg("frame", i))
  /\ [][(appPc = "send_put" /\ appPc' # "send_put") =>
          /\ Len(tx_queue) < TX_QUEUE_SIZE
          /\ Len(tx_queue') = Len(tx_queue) + 1
          /\ tx_queue'[Len(tx_queue')].kind = "frame"]_vars

\* The second send() returned after _tx_thread had taken the first frame,
\* and its frame is still queued although the IO process has ended.
C7_Witness ==
  /\ sendRes[2] = "ok"
  /\ \E k \in DOMAIN txTaken : txTaken[k] = Msg("frame", 1)
  /\ \E k \in DOMAIN tx_queue : tx_queue[k] = Msg("frame", 2)
  /\ ioPc = "dead"

\* C8: when the last byte read while waiting for the acknowledgement of the
\* set-bitrate command is NACK, _init_adapter has failed with the NACK error
\* and 'O\r' is not among the writes.
C8_NackNoOpenChannel ==
  (lastAck = <<"S", NACK>>) =>
    /\ initErr = "Nack"
    /\ "O" \notin Kinds(writes)

\* The set-bitrate command was answered with NACK and the session has ended.
C8_Witness ==
  /\ lastAck = <<"S", NACK>>
  /\ ioPc = "dead"

\* C9: when the port has delivered no byte, _init_adapter fails with the
\* timeout error on the first read after the set-bitrate command, not
\* earlier, and 'O\r' is not among the writes.
C9_TimeoutAfterOneRead ==
  /\ (lastAck = <<"S", NoByte>> /\ ~delivered) =>
       /\ initErr = "AckTimeout"
       /\ ackReads = 1
       /\ "O" \notin Kinds(writes)
  /\ (initErr = "AckTimeout") => ackReads >= 1

\* The silent port has made _init_adapter fail and the session has ended.
C9_Witness ==
  /\ lastAck = <<"S", NoByte>>
  /\ ~delivered
  /\ initErr = "AckTimeout"
  /\ ioPc = "dead"

\* C10 (as stated): after __init__ has published the Stop Command and failed
\* with the init timeout, the IO process eventually ends; a session that the
\* timeout finds waiting for the acknowledgement of the set-bitrate command
\* therefore eventually leaves _wait_for_ack.
C10_Original ==
  (startRes = "InitTimeout" /\ stopsPut[1] = 1 /\ ioPc = "ack_S")
    ~> (ioPc # "ack_S")

\* The identifier, extended flag and payload of an item of frames.
Core(f) == <<f.kind, f.id, f.extended, f.data>>
CoreSeq(fs) == [k \in DOMAIN fs |-> Core(fs[k])]

\* The frames that a sequence of fragments encodes, in order.
RECURSIVE Sources(_)
Sources(fs) == IF fs = <<>> THEN <<>> ELSE fs[1].src \o Sources(Tail(fs))

\* All bytes of the stream have been read and the pass over them has ended.
AtRest == decPc = "read" /\ unread = <<>>

IsPrefix(s, t) == Len(s) <= Len(t) /\ s = SubSeq(t, 1, Len(s))

\* C11: round trip. When the stream is the encoding of one valid frame F,
\* the decoder emits nothing but F, without hardware timestamp; once all bytes
\* are read and the pass has ended it has emitted exactly F and has consumed
\* the whole encoding (nothing is kept in buf).
C11_RoundTrip ==
  (Len(wireSrc) = 1 /\ wireSrc[1].valid /\ wireSrc[1].stamp = <<>>) =>
     LET F == wireSrc[1].src[1]
     IN /\ wireSrc[1].bytes = _send_frame(F)
        /\ F.ts_hardware = <<>>
        /\ frames \in {<<>>, <<F>>}
        /\ AtRest => (frames = <<F>> /\ buf = <<>>)
        /\ (lastParse.kind = "frame") =>
              (lastParse.pos = Len(_send_frame(F)) /\ lastParse.at = 0)

\* C11 (witness): the encoding of an extended frame with the largest
\* identifier and eight payload bytes has been decoded back to that frame.
C11_Witness ==
  LET F == CANFrame(536870911, <<1, 2, 3, 4, 5, 6, 7, 255>>, TRUE, <<>>)
  IN /\ wireSrc = <<Encoded(F)>>
     /\ AtRest
     /\ frames = <<F>>
     /\ buf = <<>>
     /\ lastParse.kind = "frame"
     /\ lastParse.pos = 27

\* C12: split-buffer idempotence. For a sequence of encoded frames (with or
\* without the timestamp of the adapter) that rx_queue has room for, whatever
\* the cuts of the reads: the frames emitted so far are the first frames of
\* the sequence, and once all bytes are read and the pass has ended they are
\* the whole sequence, which is what a single read yields.
C12_SplitBuffer ==
  ((\A k \in DOMAIN wireSrc : wireSrc[k].valid) /\ Len(wireSrc) <= RX_QUEUE_SIZE) =>
     /\ IsPrefix(CoreSeq(frames), CoreSeq(Sources(wireSrc)))
     /\ AtRest => CoreSeq(frames) = CoreSeq(Sources(wireSrc))

\* C12 (witness): of a timestamped frame followed by an extended frame, the
\* first frame has been emitted and a read has ended inside the identifier
\* of the second one, whose first five bytes are kept in buf.
C12_Witness ==
  /\ wireSrc = <<Stamped(CANFrame(291, <<>>, FALSE, <<>>),
                         bytes(<<"1", "a", "2", "B">>)),
                 Encoded(CANFrame(536870911, <<171>>, TRUE, <<>>))>>
  /\ decPc = "read"
  /\ Len(frames) = 1
  /\ buf = SubSeq(_send_frame(CANFrame(536870911, <<171>>, TRUE, <<>>)), 1, 5)
  /\ unread # <<>>

\* The parse that the decoder is about to make at the marker it has found,
\* and the length byte of that fragment.
ParseAtMarker == parse(buf, pos, py2_compat)
LengthIndexAtMarker ==
  pos + 1 + (IF PyIndex(buf, pos) = ord("T") THEN 8 ELSE 3)
LengthByteAtMarker ==
  IF PyIndexOK(buf, LengthIndexAtMarker)
    THEN PyIndex(buf, LengthIndexAtMarker)
    ELSE 0
IsHexDigit(b) == HexVal(b) >= 0

\* C13 (as stated): for a fragment with a valid marker, identifier and length
\* digit 0..8, the decoder takes the fragment to carry a hardware timestamp
\* exactly when the byte at the terminator position is a hex digit of either
\* case, takes it to carry none when that byte is '\r', and emits a frame
\* without timestamp only when that byte is '\r'.
C13_Original ==
  (decPc = "parse" /\ ParseAtMarker.peeked
     /\ LengthByteAtMarker \in 48..56) =>
     LET r == ParseAtMarker
     IN /\ r.with_timestamp <=> IsHexDigit(r.peek)
        /\ (r.peek = ord("\r")) => ~r.with_timestamp
        /\ (r.kind = "frame" /\ r.frame.ts_hardware = <<>>)
              => r.peek = ord("\r")

\* C14 (as stated): a fragment whose length digit decodes to 9 or more never
\* produces a frame, and every frame the decoder emits has a payload of at
\* most eight bytes.
C14_Original ==
  /\ (decPc = "parse" /\ LengthByteAtMarker - 48 >= 9)
        => ParseAtMarker.kind # "frame"
  /\ \A k \in DOMAIN frames :
        frames[k].kind = "frame" => Len(frames[k].data) <= 8

\* C15 (as stated): every parse at a marker that does not stop for 'need more
\* data' moves pos forward by at least one byte, and the count of consumed
\* bytes with which a pass ends lies between 0 and the length of the buffer.
C15_Original ==
  /\ (decPc = "parse" /\ ParseAtMarker.kind # "more")
        => ParseAtMarker.pos > pos
  /\ (decPc = "trim") => (pos >= 0 /\ pos <= Len(buf))

\* C16 (as stated): a decoding error at a marker discards exactly the marker
\* byte: scanning resumes one past the marker. Stated for the fragments whose
\* length byte is a decimal digit, the errors the claim lists.
C16_Original ==
  (decPc = "parse" /\ ParseAtMarker.kind = "error"
     /\ LengthByteAtMarker \in 48..57)
     => ParseAtMarker.pos = pos + 1

\* C17 (as stated): the acknowledgement wait of either handshake command
\* always ends, whatever bytes the adapter sends.
C17_Original ==
  /\ (ioPc = "ack_S") ~> (ioPc # "ack_S")
  /\ (ioPc = "ack_O") ~> (ioPc # "ack_O")

\* C18 (as stated): IPC_SIGNAL_INIT_OK is the first message of rx_queue, so
\* __init__ takes no other message from the queue while it waits for it.
C18_Original ==
  /\ startDropped = {}
  /\ \A k \in DOMAIN rx_queue :
       rx_queue[k].kind = IPC_SIGNAL_INIT_OK => k = 1

\* The position of a write in the order of a session.
WriteRank(w) ==
  CASE w.kind = "S" -> 1
    [] w.kind = "O" -> 2
    [] w.kind = "frame" -> 3
    [] w.kind = "C" -> 4

\* C19: the writes of a session are in the order 'S<code>\r', 'O\r', frames,
\* 'C\r', each command at most once, so nothing follows 'C\r'; 'O\r' is
\* written only when the last byte read was the ACK of the set-bitrate
\* command, and a frame only when it was the ACK of 'O\r'.
C19_WriteOrder ==
  /\ [](\A i, j \in DOMAIN writes :
          i < j =>
            /\ WriteRank(writes[i]) <= WriteRank(writes[j])
            /\ WriteRank(writes[i]) = WriteRank(writes[j]) =>
                 writes[i].kind = "frame")
  /\ [][Len(writes') > Len(writes) =>
          LET w == writes'[Len(writes')]
          IN /\ w.kind = "S" => writes = <<>>
             /\ w.kind = "O" => /\ lastAck = <<"S", ACK>>
                                /\ Kinds(writes) = {"S"}
             /\ w.kind = "frame" => /\ lastAck = <<"O", ACK>>
                                    /\ {"S", "O"} \subseteq Kinds(writes)]_vars

\* A session wrote both handshake commands, two frames and 'C\r', and ended.
C19_Witness ==
  /\ Len(writes) = 5
  /\ writes[3].kind = "frame" /\ writes[4].kind = "frame"
  /\ writes[5].kind = "C"
  /\ ioPc = "dead"

\* The frame of send() call i was written to the port.
Written(i) == \E k \in DOMAIN writes : writes[k] = Msg("frame", i)

\* The write error of the frame of send() call i was forwarded.
Forwarded(i) ==
  \/ \E k \in DOMAIN rx_queue : rx_queue[k] = Msg("exc_write", i)
  \/ \E k \in DOMAIN recvLog : recvLog[k] = Msg("exc_write", i)

\* C20 (as stated): when 'C\r' is written after _tx_thread has ended on the
\* Stop Command, the frame of every send() call that returned was written
\* or its write error was forwarded on rx_queue.
C20_Original ==
  (txCmd.kind = IPC_COMMAND_STOP /\ "C" \in Kinds(writes)) =>
    \A i \in 1..MaxSend : sendRes[i] = "ok" => Written(i) \/ Forwarded(i)

\* C20 (amended): when _tx_thread has ended on the Stop Command, it has taken
\* the frame of every send() call that returned from tx_queue, before the Stop
\* Command, and has passed it to _send_frame: once 'C\r' is written no such
\* frame is left on the queue. A write that raises puts its error on rx_queue
\* when the queue has room and loses it otherwise.
C20_FlushedBeforeStop ==
  /\ [](txCmd.kind = IPC_COMMAND_STOP =>
         \A i \in 1..MaxSend :
           sendRes[i] = "ok" =>
             /\ \E k \in DOMAIN txTaken :
                  /\ txTaken[k] = Msg("frame", i)
                  /\ \A n \in 1..k : txTaken[n].kind = "frame"
             /\ \A k \in DOMAIN tx_queue : tx_queue[k] # Msg("frame", i))
  /\ [][(ioPc = "tx_send" /\ ioPc' # "tx_send") =>
          \/ writes' = Append(writes, txCmd)
          \/ /\ writes' = writes
             /\ Len(rx_queue) < RX_QUEUE_SIZE =>
                  rx_queue' = Append(rx_queue, Msg("exc_write", txCmd.id))
             /\ Len(rx_queue) >= RX_QUEUE_SIZE => rx_queue' = rx_queue]_vars

\* C20 (witness): _tx_thread took the frames of two send() calls and then the
\* Stop Command of close(); a frame was written before 'C\r' and the session
\* has ended.
C20_Witness ==
  /\ txCmd.kind = IPC_COMMAND_STOP
  /\ \E i \in 1..MaxSend :
       /\ sendRes[i] = "ok"
       /\ \E k \in DOMAIN writes :
            /\ writes[k] = Msg("frame", i)
            /\ writes[Len(writes)].kind = "C"
  /\ Len(txTaken) >= 3
  /\ ioPc = "dead"

====
